---- MODULE Spec2Model ----
(***************************************************************************)
(* Model of classical_logic/parsing.py: the lexer (_lex, _lex_accept), the *)
(* recursive-descent parser (_Parser) and the API (prop, props), together  *)
(* with the formula model (rendering and interpretation) that the parser   *)
(* builds on.                                                              *)
(*                                                                         *)
(* A string is a sequence of characters; a character is a one-character    *)
(* TLA+ string.  Lexemes, names and messages' arguments are strings in     *)
(* that sense.                                                             *)
(***************************************************************************)
EXTENDS Integers, Sequences, FiniteSets, TLC

VARIABLES text, pc, lexed, out, outs, src, gaps, prev, formula, interp, val

vars == <<text, pc, lexed, out, outs, src, gaps, prev, formula, interp, val>>

(***************************************************************************)
(* Bounds of the model.                                                    *)
(***************************************************************************)
\* longest text given to prop
MaxLen == 4

\* longest text given to props
MaxListLen == 5

\* longest text given to the lexer alone
MaxLexLen == 4

\* most tokens of a text that whitespace is inserted into
MaxToks == 3

\* most whitespace characters inserted into a text
MaxInserts == 1

\* most operands of a chain of one binary operator
MaxChain == 4

\* most operands of a parenthesis-free expression
MaxOperands == 4

\* most nodes of a formula that is rendered and parsed back
MaxNodes == 6

\* most nodes of a formula that is interpreted
MaxEvalNodes == 4

(***************************************************************************)
(* Characters.                                                             *)
(***************************************************************************)
\* " \t\f\r\n", parsing.py line 141
Whitespace == {" ", "\t", "\f", "\r", "\n"}

\* characters for which str.isalpha() holds; "e_acute" stands for a
\* non-ASCII letter (U+00E9)
Letters == {"p", "q", "r", "s", "t", "u", "x", "e_acute"}

\* characters for which str.isalnum() holds and str.isalpha() does not
Digits == {"1"}

isalpha(c) == c \in Letters

isalnum(c) == c \in Letters \cup Digits

(***************************************************************************)
(* Messages and failures.  A failure is the exception that leaves the      *)
(* call: its class (kind), its message and the message's argument.         *)
(***************************************************************************)
_UNEXP_END_OF_STR == "unexpected end of string"

NoErr == [kind |-> "none", msg |-> "", arg |-> <<>>]

ValueError(msg, arg) == [kind |-> "ValueError", msg |-> msg, arg |-> arg]

_unexp_char(c) == ValueError("unexpected character", <<c>>)

_unexp_token(token_value) == ValueError("unexpected token", token_value)

EndOfString == ValueError(_UNEXP_END_OF_STR, <<>>)

\* next() on an exhausted iterator, with no default
StopIteration == [kind |-> "StopIteration", msg |-> "", arg |-> <<>>]

(***************************************************************************)
(* Lexical analysis.                                                       *)
(***************************************************************************)
_TokenType == {"IDENT", "NOT", "AND", "OR", "IMPLIES", "IFF", "LPARENS", "RPARENS"}

Token(type, value) == [type |-> type, value |-> value]

\* _lex_accept that takes the end of the text for the expected character
_lex_accept_to_end(txt, i, expected) ==
  IF i <= Len(txt) /\ txt[i] # expected THEN _unexp_char(txt[i])
  ELSE NoErr

\* _lex_accept(it, expected), the iterator standing before text[i]
_lex_accept(txt, i, expected) ==
  IF i > Len(txt) THEN EndOfString
  ELSE IF txt[i] # expected THEN _unexp_char(txt[i])
  ELSE NoErr

\* IdentEnd that takes whitespace into the identifier
RECURSIVE IdentEndSpaced(_, _)
IdentEndSpaced(txt, j) ==
  IF j <= Len(txt) /\ (isalnum(txt[j]) \/ txt[j] = "_" \/ txt[j] \in Whitespace)
  THEN IdentEndSpaced(txt, j + 1)
  ELSE j

\* the end of the run of identifier characters that starts at i
RECURSIVE IdentEnd(_, _)
IdentEnd(txt, j) ==
  IF j <= Len(txt) /\ (isalnum(txt[j]) \/ txt[j] = "_")
  THEN IdentEnd(txt, j + 1)
  ELSE j

\* The loop of _lex with c = txt[i] (None past the end) and toks the tokens
\* yielded so far.  The result is the whole token stream: the tokens in
\* order and how the stream ends (NoErr: exhausted; else the ValueError
\* raised after the last token).
RECURSIVE LexLoop(_, _, _)
LexLoop(txt, i, toks) ==
  IF i > Len(txt) THEN [toks |-> toks, err |-> NoErr]
  ELSE LET c == txt[i] IN
    CASE c = "~" -> LexLoop(txt, i + 1, Append(toks, Token("NOT", <<"~">>)))
      [] c = "&" -> LexLoop(txt, i + 1, Append(toks, Token("AND", <<"&">>)))
      [] c = "|" -> LexLoop(txt, i + 1, Append(toks, Token("OR", <<"|">>)))
      [] c = "-" ->
           LET a == _lex_accept(txt, i + 1, ">") IN
           IF a # NoErr THEN [toks |-> toks, err |-> a]
           ELSE LexLoop(txt, i + 2, Append(toks, Token("IMPLIES", <<"-", ">">>)))
      [] c = "<" ->
           LET a == _lex_accept(txt, i + 1, "-")
               b == _lex_accept(txt, i + 2, ">")
           IN IF a # NoErr THEN [toks |-> toks, err |-> a]
              ELSE IF b # NoErr THEN [toks |-> toks, err |-> b]
              ELSE LexLoop(txt, i + 3, Append(toks, Token("IFF", <<"<", "-", ">">>)))
      [] c = "(" -> LexLoop(txt, i + 1, Append(toks, Token("LPARENS", <<"(">>)))
      [] c = ")" -> LexLoop(txt, i + 1, Append(toks, Token("RPARENS", <<")">>)))
      [] c \in Whitespace -> LexLoop(txt, i + 1, toks)
      [] c \notin {"~", "&", "|", "-", "<", "(", ")"} \cup Whitespace
           /\ (isalpha(c) \/ c = "_") ->
           LET j == IdentEnd(txt, i + 1) IN
           LexLoop(txt, j, Append(toks, Token("IDENT", SubSeq(txt, i, j - 1))))
      [] OTHER -> [toks |-> toks, err |-> _unexp_char(c)]

_lex(txt) == LexLoop(txt, 1, <<>>)

(***************************************************************************)
(* The formula tree.                                                       *)
(***************************************************************************)
NoTree == [op |-> "None", name |-> <<>>, kids |-> <<>>]

Atomic(name) == [op |-> "Atomic", name |-> name, kids |-> <<>>]

Predicate(name) == Atomic(name)

Not(x) == [op |-> "Not", name |-> <<>>, kids |-> <<x>>]

And(l, r) == [op |-> "And", name |-> <<>>, kids |-> <<l, r>>]

Or(l, r) == [op |-> "Or", name |-> <<>>, kids |-> <<l, r>>]

Implies(l, r) == [op |-> "Implies", name |-> <<>>, kids |-> <<l, r>>]

Iff(l, r) == [op |-> "Iff", name |-> <<>>, kids |-> <<l, r>>]

Binary == {"And", "Or", "Implies", "Iff"}

\* the text of each binary connective
Connective == [And |-> <<"&">>, Or |-> <<"|">>, Implies |-> <<"-", ">">>,
               Iff |-> <<"<", "-", ">">>]

\* str(t): an Atomic is its name, Not(x) is `~` and str(x), a binary node
\* is `(l OP r)`
RECURSIVE Str(_)
Str(t) ==
  IF t.op = "Atomic" THEN t.name
  ELSE IF t.op = "Not" THEN <<"~">> \o Str(t.kids[1])
  ELSE <<"(">> \o Str(t.kids[1]) \o <<" ">> \o Connective[t.op] \o <<" ">>
         \o Str(t.kids[2]) \o <<")">>

\* the result of an interpretation: a boolean, or the failure that names
\* the variable the Interpretation lacks
Value(b) == [kind |-> "ok", value |-> b, name |-> <<>>]

MissingVariable(name) == [kind |-> "MissingVariable", value |-> FALSE, name |-> name]

NoVal == [kind |-> "none", value |-> FALSE, name |-> <<>>]

\* interpret that evaluates both operands before it combines them
RECURSIVE InterpretBoth(_, _)
InterpretBoth(t, I) ==
  IF t.op = "Atomic" THEN
    IF t.name \in DOMAIN I THEN Value(I[t.name]) ELSE MissingVariable(t.name)
  ELSE IF t.op = "Not" THEN
    LET x == InterpretBoth(t.kids[1], I) IN
    IF x.kind = "ok" THEN Value(~x.value) ELSE x
  ELSE
    LET l == InterpretBoth(t.kids[1], I)
        r == InterpretBoth(t.kids[2], I)
    IN IF l.kind # "ok" THEN l
       ELSE IF r.kind # "ok" THEN r
       ELSE IF t.op = "And" THEN Value(l.value /\ r.value)
       ELSE IF t.op = "Or" THEN Value(l.value \/ r.value)
       ELSE IF t.op = "Implies" THEN Value(l.value => r.value)
       ELSE Value(l.value = r.value)

\* t.interpret(I), I a function from some names to booleans
RECURSIVE Interpret(_, _)
Interpret(t, I) ==
  IF t.op = "Atomic" THEN
    IF t.name \in DOMAIN I THEN Value(I[t.name]) ELSE MissingVariable(t.name)
  ELSE IF t.op = "Not" THEN
    LET x == Interpret(t.kids[1], I) IN
    IF x.kind = "ok" THEN Value(~x.value) ELSE x
  ELSE
    LET l == Interpret(t.kids[1], I)
        r == Interpret(t.kids[2], I)
    IN IF l.kind # "ok" THEN l
       ELSE IF t.op = "And" THEN (IF ~l.value THEN Value(FALSE) ELSE r)
       ELSE IF t.op = "Or" THEN (IF l.value THEN Value(TRUE) ELSE r)
       ELSE IF t.op = "Implies" THEN (IF ~l.value THEN Value(TRUE) ELSE r)
       ELSE IF r.kind # "ok" THEN r
       ELSE Value(l.value = r.value)

(***************************************************************************)
(* Parsing.  The parser holds the token stream s (the result of _lex, which *)
(* it pulls one token at a time) and the index k of its current token;     *)
(* k = Len(s.toks) + 1 is the current token (None, "").  A rule returns    *)
(* the tree and the index it stopped at, or the failure raised.            *)
(***************************************************************************)
Parsed(tree, k) == [ok |-> TRUE, tree |-> tree, pos |-> k, err |-> NoErr]

Raised(err) == [ok |-> FALSE, tree |-> NoTree, pos |-> 0, err |-> err]

_current_token_type(s, k) == IF k <= Len(s.toks) THEN s.toks[k].type ELSE "None"

_current_token_value(s, k) == IF k <= Len(s.toks) THEN s.toks[k].value ELSE <<>>

\* next(self._token_stream, (None, "")): the lexer runs on to its next
\* token, to the end of the text, or to its ValueError
_advance(s, k) ==
  IF k + 1 <= Len(s.toks) \/ s.err = NoErr
  THEN Parsed(NoTree, k + 1)
  ELSE Raised(s.err)

RECURSIVE bic(_, _), cond(_, _), disj(_, _), conj(_, _), neg(_, _), unit(_, _)
RECURSIVE disj_loop(_, _, _), conj_loop(_, _, _)

\* the raise at the end of unit without the test for the end of the stream
unit_raise_token(s, k) == Raised(_unexp_token(_current_token_value(s, k)))

\* lines 248-252: the raise at the end of unit
unit_raise(s, k) ==
  IF _current_token_type(s, k) = "None"
  THEN Raised(EndOfString)
  ELSE Raised(_unexp_token(_current_token_value(s, k)))

unit(s, k) ==
  IF _current_token_type(s, k) = "IDENT" THEN
    LET a == _advance(s, k) IN
    IF a.ok THEN Parsed(Predicate(_current_token_value(s, k)), a.pos)
    ELSE Raised(a.err)
  ELSE IF _current_token_type(s, k) = "LPARENS" THEN
    LET a == _advance(s, k)
        close(b) ==
          IF ~b.ok THEN b
          ELSE IF _current_token_type(s, b.pos) = "RPARENS" THEN
            LET a2 == _advance(s, b.pos) IN
            IF a2.ok THEN Parsed(b.tree, a2.pos) ELSE Raised(a2.err)
          ELSE unit_raise(s, b.pos)
    IN IF ~a.ok THEN Raised(a.err) ELSE close(bic(s, a.pos))
  ELSE unit_raise(s, k)

\* neg whose operand is a unit: `~` cannot follow `~`
neg_unit(s, k) ==
  IF _current_token_type(s, k) = "NOT" THEN
    LET a == _advance(s, k)
        negate(x) == IF x.ok THEN Parsed(Not(x.tree), x.pos) ELSE x
    IN IF ~a.ok THEN Raised(a.err) ELSE negate(unit(s, a.pos))
  ELSE unit(s, k)

neg(s, k) ==
  IF _current_token_type(s, k) = "NOT" THEN
    LET a == _advance(s, k)
        negate(x) == IF x.ok THEN Parsed(Not(x.tree), x.pos) ELSE x
    IN IF ~a.ok THEN Raised(a.err) ELSE negate(neg(s, a.pos))
  ELSE unit(s, k)

\* the loop of conj that folds `|` as well as `&`
RECURSIVE conj_loop_or(_, _, _)
conj_loop_or(s, cur, k) ==
  IF _current_token_type(s, k) \in {"AND", "OR"} THEN
    LET a == _advance(s, k)
        fold(x) ==
          IF ~x.ok THEN x
          ELSE IF _current_token_type(s, k) = "AND"
          THEN conj_loop_or(s, And(cur, x.tree), x.pos)
          ELSE conj_loop_or(s, Or(cur, x.tree), x.pos)
    IN IF ~a.ok THEN Raised(a.err) ELSE fold(neg(s, a.pos))
  ELSE Parsed(cur, k)

\* the while loop of conj, current_prop = cur
conj_loop(s, cur, k) ==
  IF _current_token_type(s, k) = "AND" THEN
    LET a == _advance(s, k)
        fold(x) == IF x.ok THEN conj_loop(s, And(cur, x.tree), x.pos) ELSE x
    IN IF ~a.ok THEN Raised(a.err) ELSE fold(neg(s, a.pos))
  ELSE Parsed(cur, k)

\* conj that recurses into itself for the rest, as cond does
conj_right(s, k) ==
  LET rest(left) ==
        IF ~left.ok THEN left
        ELSE IF _current_token_type(s, left.pos) = "AND" THEN
          LET a == _advance(s, left.pos)
              join(right) ==
                IF right.ok THEN Parsed(And(left.tree, right.tree), right.pos)
                ELSE right
          IN IF ~a.ok THEN Raised(a.err) ELSE join(conj(s, a.pos))
        ELSE left
  IN rest(neg(s, k))

conj(s, k) ==
  LET loop(x) == IF x.ok THEN conj_loop(s, x.tree, x.pos) ELSE x
  IN loop(neg(s, k))

\* the while loop of disj, current_prop = cur
disj_loop(s, cur, k) ==
  IF _current_token_type(s, k) = "OR" THEN
    LET a == _advance(s, k)
        fold(x) == IF x.ok THEN disj_loop(s, Or(cur, x.tree), x.pos) ELSE x
    IN IF ~a.ok THEN Raised(a.err) ELSE fold(conj(s, a.pos))
  ELSE Parsed(cur, k)

disj(s, k) ==
  LET loop(x) == IF x.ok THEN disj_loop(s, x.tree, x.pos) ELSE x
  IN loop(conj(s, k))

\* cond that folds its operands in a loop, as disj does
RECURSIVE cond_fold_loop(_, _, _)
cond_fold_loop(s, cur, k) ==
  IF _current_token_type(s, k) = "IMPLIES" THEN
    LET a == _advance(s, k)
        fold(x) == IF x.ok THEN cond_fold_loop(s, Implies(cur, x.tree), x.pos) ELSE x
    IN IF ~a.ok THEN Raised(a.err) ELSE fold(disj(s, a.pos))
  ELSE Parsed(cur, k)

cond_fold(s, k) ==
  LET loop(x) == IF x.ok THEN cond_fold_loop(s, x.tree, x.pos) ELSE x
  IN loop(disj(s, k))

cond(s, k) ==
  LET rest(left) ==
        IF ~left.ok THEN left
        ELSE IF _current_token_type(s, left.pos) = "IMPLIES" THEN
          LET a == _advance(s, left.pos)
              join(right) ==
                IF right.ok THEN Parsed(Implies(left.tree, right.tree), right.pos)
                ELSE right
          IN IF ~a.ok THEN Raised(a.err) ELSE join(cond(s, a.pos))
        ELSE left
  IN rest(disj(s, k))

bic(s, k) ==
  LET rest(left) ==
        IF ~left.ok THEN left
        ELSE IF _current_token_type(s, left.pos) = "IFF" THEN
          LET a == _advance(s, left.pos)
              join(right) ==
                IF right.ok THEN Parsed(Iff(left.tree, right.tree), right.pos)
                ELSE right
          IN IF ~a.ok THEN Raised(a.err) ELSE join(bic(s, a.pos))
        ELSE left
  IN rest(cond(s, k))

\* _Parser.__init__: next(self._token_stream) with no default
_Parser(s) ==
  IF Len(s.toks) >= 1 THEN Parsed(NoTree, 1)
  ELSE IF s.err = NoErr THEN Raised(StopIteration)
  ELSE Raised(s.err)

(***************************************************************************)
(* API.  The outcome of a call is the value returned (kind "ok") or the    *)
(* exception that left it.                                                 *)
(***************************************************************************)
Returned(tree) == [kind |-> "ok", msg |-> "", arg |-> <<>>, tree |-> tree]

Failed(err) == [kind |-> err.kind, msg |-> err.msg, arg |-> err.arg, tree |-> NoTree]

NoCall == [kind |-> "none", msg |-> "", arg |-> <<>>, tree |-> NoTree]

prop(txt) ==
  LET s == _lex(txt)
      p == _Parser(s)
      result(b) == IF b.ok THEN Returned(b.tree) ELSE Failed(b.err)
  IN IF ~p.ok THEN Failed(p.err) ELSE result(bic(s, p.pos))

\* str.split(","): the pieces of txt between its commas, cur the piece
\* being read from index i on
RECURSIVE split_loop(_, _, _)
split_loop(txt, i, cur) ==
  IF i > Len(txt) THEN <<cur>>
  ELSE IF txt[i] = "," THEN <<cur>> \o split_loop(txt, i + 1, <<>>)
  ELSE split_loop(txt, i + 1, Append(cur, txt[i]))

split(txt) == split_loop(txt, 1, <<>>)

\* a StopIteration raised inside a generator leaves it as a RuntimeError
RuntimeError == [kind |-> "RuntimeError", msg |-> "generator raised StopIteration", arg |-> <<>>]

ReturnedAll(trees) == [kind |-> "ok", msg |-> "", arg |-> <<>>, trees |-> trees]

FailedAll(err) == [kind |-> err.kind, msg |-> err.msg, arg |-> err.arg, trees |-> <<>>]

NoCallAll == [kind |-> "none", msg |-> "", arg |-> <<>>, trees |-> <<>>]

\* tuple(prop(s) for s in parts), trees the results so far
RECURSIVE props_loop(_, _, _)
props_loop(parts, i, trees) ==
  IF i > Len(parts) THEN ReturnedAll(trees)
  ELSE LET collect(o) ==
             IF o.kind = "ok" THEN props_loop(parts, i + 1, Append(trees, o.tree))
             ELSE IF o.kind = "StopIteration" THEN FailedAll(RuntimeError)
             ELSE FailedAll(o)
       IN collect(prop(parts[i]))

props(txt) == props_loop(split(txt), 1, <<>>)

(***************************************************************************)
(* The calls.  Each specification draws the argument of the call in its    *)
(* initial state and then makes the call.                                  *)
(***************************************************************************)
Texts(chars, n) == UNION {[1..m -> chars] : m \in 0..n}

NoLex == [toks |-> <<>>, err |-> [kind |-> "not run", msg |-> "", arg |-> <<>>]]

\* no call made yet
Idle ==
  /\ lexed = NoLex
  /\ out = NoCall
  /\ outs = NoCallAll
  /\ val = NoVal

\* a text is the whole input
TextOnly ==
  /\ pc = "ready"
  /\ src = <<>>
  /\ gaps = <<>>
  /\ prev = <<>>
  /\ formula = NoTree
  /\ interp = <<>>

\* prop(text)
Parsing(from, to) ==
  /\ pc = from
  /\ out' = prop(text)
  /\ pc' = to
  /\ UNCHANGED <<text, lexed, outs, src, gaps, prev, formula, interp, val>>

CallProp == Parsing("ready", "done")

\* props(text)
CallProps ==
  /\ pc = "ready"
  /\ outs' = props(text)
  /\ pc' = "done"
  /\ UNCHANGED <<text, lexed, out, src, gaps, prev, formula, interp, val>>

\* text = str(formula)
Render ==
  /\ pc = "built"
  /\ text' = Str(formula)
  /\ pc' = "ready"
  /\ UNCHANGED <<lexed, out, outs, src, gaps, prev, formula, interp, val>>

\* the lexeme of each token type but IDENT (_lex, lines 117-139)
Lexeme == [NOT |-> <<"~">>, AND |-> <<"&">>, OR |-> <<"|">>,
           IMPLIES |-> <<"-", ">">>, IFF |-> <<"<", "-", ">">>,
           LPARENS |-> <<"(">>, RPARENS |-> <<")">>]

BinaryTokens == {"AND", "OR", "IMPLIES", "IFF"}

\* the node each binary operator's rule builds
NodeOf == [AND |-> "And", OR |-> "Or", IMPLIES |-> "Implies", IFF |-> "Iff"]

\* the text of operands[i] ops[i] operands[i+1] ... with single spaces
\* around the operators
RECURSIVE ExprText(_, _, _)
ExprText(operands, ops, i) ==
  IF i >= Len(operands) THEN operands[i].text
  ELSE operands[i].text \o <<" ">> \o Lexeme[ops[i]] \o <<" ">>
         \o ExprText(operands, ops, i + 1)

\* the expression src is written out as the text
Write ==
  /\ pc = "drawn"
  /\ text' = ExprText(src.operands, src.ops, 1)
  /\ pc' = "ready"
  /\ UNCHANGED <<lexed, out, outs, src, gaps, prev, formula, interp, val>>

\* formula.interpret(interp)
CallInterpret ==
  /\ pc = "built"
  /\ val' = Interpret(formula, interp)
  /\ pc' = "done"
  /\ UNCHANGED <<text, lexed, out, outs, src, gaps, prev, formula, interp>>

\* list(_lex(text)): the lexer run to its end
Lexing(from, to) ==
  /\ pc = from
  /\ lexed' = _lex(text)
  /\ pc' = to
  /\ UNCHANGED <<text, out, outs, src, gaps, prev, formula, interp, val>>

CallLex == Lexing("ready", "done")

(***************************************************************************)
(* Spec: prop on every text over PropChars of at most MaxLen characters.   *)
(***************************************************************************)
PropChars == {"p", "(", ")", "&", "$"} \cup Whitespace

Init ==
  /\ text \in Texts(PropChars, MaxLen)
  /\ Idle
  /\ TextOnly

Next == CallProp

Spec == Init /\ [][Next]_vars

(***************************************************************************)
(* SpecProps: props on every text over ListChars of at most MaxListLen     *)
(* characters.                                                             *)
(***************************************************************************)
ListChars == {"p", ",", ")", " ", "-"}

InitProps ==
  /\ text \in Texts(ListChars, MaxListLen)
  /\ Idle
  /\ TextOnly

NextProps == CallProps

SpecProps == InitProps /\ [][NextProps]_vars

(***************************************************************************)
(* C1.  prop consumes the entire token stream: when tokens remain after    *)
(* one complete bic parse, prop fails with the unexpected-token error      *)
(* carrying the lexeme of the first remaining token, and returns no tree.  *)
(***************************************************************************)
\* the text lexes to at least one token and bic, started at the first,
\* completes before the last
TokensRemain(txt) ==
  LET s == _lex(txt) IN
  /\ Len(s.toks) >= 1
  /\ bic(s, 1).ok
  /\ bic(s, 1).pos <= Len(s.toks)

C1_ConsumesAll ==
  (pc = "done" /\ TokensRemain(text)) =>
    LET s == _lex(text) IN
    /\ out.kind = "ValueError"
    /\ out.msg = "unexpected token"
    /\ out.arg = s.toks[bic(s, 1).pos].value
    /\ out.tree = NoTree

(***************************************************************************)
(* C2.  On a text that is empty or all whitespace, prop fails with the     *)
(* ValueError "unexpected end of string".                                  *)
(***************************************************************************)
AllWhitespace(txt) == \A i \in 1..Len(txt) : txt[i] \in Whitespace

C2_EmptyIsEndOfString ==
  (pc = "done" /\ AllWhitespace(text)) =>
    /\ out.kind = "ValueError"
    /\ out.msg = _UNEXP_END_OF_STR
    /\ out.tree = NoTree

(***************************************************************************)
(* C3.  props applies prop to the pieces of the text between its commas,   *)
(* left to right: when every piece parses it returns the trees in order,   *)
(* one per piece; otherwise it returns nothing and fails with exactly the  *)
(* failure of prop on the leftmost failing piece.                          *)
(***************************************************************************)
Commas(txt) == Cardinality({i \in 1..Len(txt) : txt[i] = ","})

C3_PropsFirstFailure ==
  pc = "done" =>
    LET parts == split(text)
        bad == {i \in 1..Len(parts) : prop(parts[i]).kind # "ok"}
    IN /\ Len(parts) = Commas(text) + 1
       /\ IF bad = {}
          THEN /\ outs.kind = "ok"
               /\ outs.trees = [i \in 1..Len(parts) |-> prop(parts[i]).tree]
          ELSE LET first == CHOOSE i \in bad : \A j \in bad : i <= j
                   o == prop(parts[first])
               IN /\ outs.kind = o.kind
                  /\ outs.msg = o.msg
                  /\ outs.arg = o.arg
                  /\ outs.trees = <<>>

(***************************************************************************)
(* SpecLex: the lexer on every text over LexChars of at most MaxLexLen     *)
(* characters.                                                             *)
(***************************************************************************)
LexChars == {"x", "e_acute", "1", "_", "-", "<", ">", " ", "$"}

InitLex ==
  /\ text \in Texts(LexChars, MaxLexLen)
  /\ Idle
  /\ TextOnly

NextLex == CallLex

SpecLex == InitLex /\ [][NextLex]_vars

(***************************************************************************)
(* C9.  The characters of `->` and `<->` are checked one at a time, left   *)
(* to right.  Where the lexer stands at a `-` (a `<`) after a prefix it    *)
(* lexed without error, the first character that is not the next one of    *)
(* the operator ends the stream there with "unexpected character" carrying *)
(* it, the end of the text in its place ends it with "unexpected end of    *)
(* string", and in both cases no token is emitted beyond those of the      *)
(* prefix; otherwise the operator's token follows those of the prefix.     *)
(***************************************************************************)
\* what the lexer must make of txt, which has the characters of the
\* operator op from index i on, toks being the tokens of txt before i
OperatorAt(txt, i, op, type, toks, res) ==
  LET bad == {j \in 1..Len(op) : i + j - 1 > Len(txt) \/ txt[i + j - 1] # op[j]} IN
  IF bad = {}
  THEN /\ Len(res.toks) > Len(toks)
       /\ SubSeq(res.toks, 1, Len(toks) + 1) = Append(toks, Token(type, op))
  ELSE LET j == CHOOSE j \in bad : \A h \in bad : j <= h IN
       /\ res.toks = toks
       /\ res.err = IF i + j - 1 > Len(txt) THEN EndOfString
                    ELSE _unexp_char(txt[i + j - 1])

C9_OperatorCharByChar ==
  pc = "done" =>
    \A i \in 1..Len(text) :
      LET before == _lex(SubSeq(text, 1, i - 1)) IN
      before.err = NoErr =>
        /\ text[i] = "-" =>
             OperatorAt(text, i, <<"-", ">">>, "IMPLIES", before.toks, lexed)
        /\ text[i] = "<" =>
             OperatorAt(text, i, <<"<", "-", ">">>, "IFF", before.toks, lexed)

\* "<-x": the third character of `<->` is wrong
C9_Witness ==
  /\ pc = "done"
  /\ text = <<"<", "-", "x">>
  /\ lexed = [toks |-> <<>>, err |-> _unexp_char("x")]

(***************************************************************************)
(* The formulas with exactly n nodes over the names Names.                 *)
(***************************************************************************)
Names == {<<"p">>, <<"_", "q", "1">>}

Node(op, l, r) == [op |-> op, name |-> <<>>, kids |-> <<l, r>>]

RECURSIVE Trees(_)
Trees(n) ==
  IF n = 1 THEN {Atomic(nm) : nm \in Names}
  ELSE {Not(x) : x \in Trees(n - 1)}
       \cup UNION {{Node(op, l, r) : op \in Binary, l \in Trees(i), r \in Trees(n - 1 - i)}
                     : i \in 1..(n - 2)}

TreesUpTo(n) == UNION {Trees(i) : i \in 1..n}

(***************************************************************************)
(* SpecRoundTrip: every formula of at most MaxNodes nodes is rendered and  *)
(* the rendering parsed.                                                   *)
(***************************************************************************)
InitRoundTrip ==
  /\ formula \in TreesUpTo(MaxNodes)
  /\ interp = <<>>
  /\ text = <<>>
  /\ pc = "built"
  /\ src = <<>>
  /\ gaps = <<>>
  /\ prev = <<>>
  /\ Idle

NextRoundTrip == Render \/ CallProp

SpecRoundTrip == InitRoundTrip /\ [][NextRoundTrip]_vars

(***************************************************************************)
(* SpecInterpret: every formula of at most MaxEvalNodes nodes is           *)
(* interpreted under every assignment of booleans to some of the names.    *)
(***************************************************************************)
Interpretations == UNION {[D -> BOOLEAN] : D \in SUBSET Names}

InitInterpret ==
  /\ formula \in TreesUpTo(MaxEvalNodes)
  /\ interp \in Interpretations
  /\ text = <<>>
  /\ pc = "built"
  /\ src = <<>>
  /\ gaps = <<>>
  /\ prev = <<>>
  /\ Idle

NextInterpret == CallInterpret

SpecInterpret == InitInterpret /\ [][NextInterpret]_vars

(***************************************************************************)
(* C4.  Round trip: for every formula whose names are identifiers, prop of *)
(* its rendering returns the formula itself.                               *)
(***************************************************************************)
C4_RoundTrip ==
  (pc = "done" /\ formula # NoTree) => out = Returned(formula)

\* ~(p & ~_q1) parsed back from its rendering
C4_Witness ==
  /\ pc = "done"
  /\ formula = Not(And(Atomic(<<"p">>), Not(Atomic(<<"_", "q", "1">>))))
  /\ text = <<"~", "(", "p", " ", "&", " ", "~", "_", "q", "1", ")">>
  /\ out.kind = "ok"
  /\ out.tree = formula

(***************************************************************************)
(* C8.  Short circuit: the left operand is evaluated first.  And with a    *)
(* false left operand is False, Or with a true one True, Implies with a    *)
(* false one True, whatever the right operand lacks; in every other case   *)
(* the failure of an operand is the failure of the node: the left one's    *)
(* if it fails, else the right one's; Iff needs both.                      *)
(***************************************************************************)
\* the left operand alone decides the node
Decides(op, l) ==
  \/ op = "And" /\ l = Value(FALSE)
  \/ op = "Or" /\ l = Value(TRUE)
  \/ op = "Implies" /\ l = Value(FALSE)

C8_ShortCircuit ==
  (pc = "done" /\ formula.op \in Binary) =>
    LET l == Interpret(formula.kids[1], interp)
        r == Interpret(formula.kids[2], interp)
    IN /\ Decides(formula.op, l) => val = Value(formula.op # "And")
       /\ l.kind = "MissingVariable" => val = l
       /\ (l.kind = "ok" /\ ~Decides(formula.op, l) /\ r.kind = "MissingVariable")
            => val = r
       /\ (formula.kids[1].op = "Atomic" /\ formula.kids[2].op = "Atomic") =>
            LET a == formula.kids[1].name
                b == formula.kids[2].name
            IN /\ a \notin DOMAIN interp => val = MissingVariable(a)
               /\ (a \in DOMAIN interp /\ Decides(formula.op, Value(interp[a])))
                    => val.kind = "ok"
               /\ (a \in DOMAIN interp /\ ~Decides(formula.op, Value(interp[a]))
                     /\ b \notin DOMAIN interp) => val = MissingVariable(b)

\* p & q under {p: False}: False although q is missing
C8_Witness ==
  /\ pc = "done"
  /\ formula = And(Atomic(<<"p">>), Atomic(<<"_", "q", "1">>))
  /\ DOMAIN interp = {<<"p">>}
  /\ interp[<<"p">>] = FALSE
  /\ val = Value(FALSE)

(***************************************************************************)
(* Expressions: operands with a binary operator between each two.  An      *)
(* operand is its text together with the tree it stands for.               *)
(***************************************************************************)
Operand(txt, tree) == [text |-> txt, tree |-> tree]

P == Atomic(<<"p">>)

Q == Atomic(<<"q">>)

\* operands of the rule unit: IDENT | "(" bic ")"
UnitOperands ==
  { Operand(<<"p">>, P),
    Operand(<<"q">>, Q),
    Operand(<<"(", "p", "-", ">", "q", ")">>, Implies(P, Q)),
    Operand(<<"(", "p", "&", "q", ")">>, And(P, Q)) }

InitExpr ==
  /\ text = <<>>
  /\ pc = "drawn"
  /\ gaps = <<>>
  /\ prev = <<>>
  /\ formula = NoTree
  /\ interp = <<>>
  /\ Idle

(***************************************************************************)
(* SpecChain: prop on a1 OP a2 OP ... OP an, 2 <= n <= MaxChain, for each  *)
(* binary operator OP and all unit operands.                               *)
(***************************************************************************)
Chains ==
  UNION {{[ops |-> [i \in 1..(n - 1) |-> o], operands |-> us]
            : o \in BinaryTokens, us \in [1..n -> UnitOperands]}
           : n \in 2..MaxChain}

InitChain ==
  /\ src \in Chains
  /\ InitExpr

NextChain == Write \/ CallProp

SpecChain == InitChain /\ [][NextChain]_vars

(***************************************************************************)
(* SpecPrec: prop on parenthesis-free expressions of 2..MaxOperands        *)
(* operands, the i-th being the i-th name or its negation, with every      *)
(* choice of binary operators between them.                                *)
(***************************************************************************)
NameOf(i) ==
  <<<<"p">>, <<"q">>, <<"r">>, <<"s">>, <<"t">>, <<"u">>>>[((i - 1) % 6) + 1]
    \o [j \in 1..((i - 1) \div 6) |-> "1"]

NameOperand(i, negated) ==
  IF negated THEN Operand(<<"~">> \o NameOf(i), Not(Atomic(NameOf(i))))
  ELSE Operand(NameOf(i), Atomic(NameOf(i)))

ParenFree ==
  UNION {{[ops |-> os, operands |-> [i \in 1..n |-> NameOperand(i, negs[i])]]
            : os \in [1..(n - 1) -> BinaryTokens], negs \in [1..n -> BOOLEAN]}
           : n \in 2..MaxOperands}

InitPrec ==
  /\ src \in ParenFree
  /\ InitExpr

NextPrec == Write \/ CallProp

SpecPrec == InitPrec /\ [][NextPrec]_vars

(***************************************************************************)
(* C5.  Precedence, tightest first: `~`, `&`, `|`, `->`, `<->`.  In a      *)
(* parenthesis-free expression the tree has the operands as its leaves and *)
(* the operators as its nodes, in the order of the text, negation applying *)
(* to its name alone, and an operand between two binary operators of       *)
(* different precedence is a child of the node of the tighter one.         *)
(***************************************************************************)
Level == [AND |-> 1, OR |-> 2, IMPLIES |-> 3, IFF |-> 4]

\* the operands of a tree, left to right: its maximal subtrees that are
\* not binary nodes
RECURSIVE OperandsOf(_)
OperandsOf(t) ==
  IF t.op \in Binary THEN OperandsOf(t.kids[1]) \o OperandsOf(t.kids[2])
  ELSE <<t>>

\* the binary nodes of a tree, left to right
RECURSIVE OperatorsOf(_)
OperatorsOf(t) ==
  IF t.op \in Binary
  THEN OperatorsOf(t.kids[1]) \o <<t.op>> \o OperatorsOf(t.kids[2])
  ELSE <<>>

\* the node of the i-th operator of the text
RECURSIVE NodeAt(_, _)
NodeAt(t, i) ==
  LET nl == Len(OperandsOf(t.kids[1])) IN
  IF i = nl THEN t
  ELSE IF i < nl THEN NodeAt(t.kids[1], i)
  ELSE NodeAt(t.kids[2], i - nl)

C5_Precedence ==
  (pc = "done" /\ src # <<>>) =>
    /\ out.kind = "ok"
    /\ OperandsOf(out.tree) = [i \in 1..Len(src.operands) |-> src.operands[i].tree]
    /\ OperatorsOf(out.tree) = [i \in 1..Len(src.ops) |-> NodeOf[src.ops[i]]]
    /\ \A i \in 1..(Len(src.ops) - 1) :
         /\ Level[src.ops[i]] < Level[src.ops[i + 1]] =>
              NodeAt(out.tree, i).kids[2] = src.operands[i + 1].tree
         /\ Level[src.ops[i]] > Level[src.ops[i + 1]] =>
              NodeAt(out.tree, i + 1).kids[1] = src.operands[i + 1].tree

\* "p -> q <-> r | s" is Iff(Implies(p, q), Or(r, s))
C5_Witness ==
  /\ pc = "done"
  /\ text = <<"p", " ", "-", ">", " ", "q", " ", "<", "-", ">", " ", "r", " ", "|", " ", "s">>
  /\ out = Returned(Iff(Implies(Atomic(<<"p">>), Atomic(<<"q">>)),
                        Or(Atomic(<<"r">>), Atomic(<<"s">>))))

(***************************************************************************)
(* C6.  `->` and `<->` are right-associative: a chain of one of them over  *)
(* unit operands parses to the right-nested tree.                          *)
(***************************************************************************)
RECURSIVE RightNested(_, _, _)
RightNested(op, trees, i) ==
  IF i >= Len(trees) THEN trees[i]
  ELSE Node(op, trees[i], RightNested(op, trees, i + 1))

RECURSIVE LeftNested(_, _, _)
LeftNested(op, trees, n) ==
  IF n <= 1 THEN trees[1]
  ELSE Node(op, LeftNested(op, trees, n - 1), trees[n])

TreesOf(operands) == [i \in 1..Len(operands) |-> operands[i].tree]

C6_RightAssociative ==
  (pc = "done" /\ src # <<>> /\ src.ops[1] \in {"IMPLIES", "IFF"}) =>
    out = Returned(RightNested(NodeOf[src.ops[1]], TreesOf(src.operands), 1))

\* "p -> q -> (p & q)" is Implies(p, Implies(q, And(p, q)))
C6_Witness ==
  /\ pc = "done"
  /\ src.ops = <<"IMPLIES", "IMPLIES">>
  /\ TreesOf(src.operands) = <<P, Q, And(P, Q)>>
  /\ out = Returned(Implies(P, Implies(Q, And(P, Q))))

(***************************************************************************)
(* C7.  `&` and `|` are left-associative: a chain of one of them over unit *)
(* operands parses to the left-nested tree.                                *)
(***************************************************************************)
C7_LeftAssociative ==
  (pc = "done" /\ src # <<>> /\ src.ops[1] \in {"AND", "OR"}) =>
    out = Returned(LeftNested(NodeOf[src.ops[1]], TreesOf(src.operands),
                              Len(src.operands)))

\* "p & q & (p -> q)" is And(And(p, q), Implies(p, q))
C7_Witness ==
  /\ pc = "done"
  /\ src.ops = <<"AND", "AND">>
  /\ TreesOf(src.operands) = <<P, Q, Implies(P, Q)>>
  /\ out = Returned(And(And(P, Q), Implies(P, Q)))

(***************************************************************************)
(* SpecWs: a text is made of the tokens src with the whitespace gaps[i]    *)
(* before the i-th token and gaps[Len(src) + 1] at the end.  It is lexed   *)
(* and parsed; then whitespace is inserted at a token boundary, and it is  *)
(* lexed and parsed again.                                                 *)
(***************************************************************************)
WsTokens ==
  { Token("IDENT", <<"p">>), Token("NOT", Lexeme.NOT), Token("AND", Lexeme.AND),
    Token("IMPLIES", Lexeme.IMPLIES), Token("LPARENS", Lexeme.LPARENS),
    Token("RPARENS", Lexeme.RPARENS) }

\* the tokens from the i-th on, each after its gap, and the last gap
RECURSIVE Joined(_, _, _)
Joined(toks, gs, i) ==
  IF i > Len(toks) THEN gs[i]
  ELSE gs[i] \o toks[i].value \o Joined(toks, gs, i + 1)

\* the least whitespace that keeps the tokens apart: a space between two
\* identifiers
Tight(toks) ==
  [i \in 1..(Len(toks) + 1) |->
     IF 1 < i /\ i <= Len(toks) /\ toks[i - 1].type = "IDENT" /\ toks[i].type = "IDENT"
     THEN <<" ">> ELSE <<>>]

RECURSIVE TotalLen(_, _)
TotalLen(gs, i) == IF i > Len(gs) THEN 0 ELSE Len(gs[i]) + TotalLen(gs, i + 1)

InsertAt(seq, j, c) == SubSeq(seq, 1, j) \o <<c>> \o SubSeq(seq, j + 1, Len(seq))

InitWs ==
  /\ src \in UNION {[1..n -> WsTokens] : n \in 0..MaxToks}
  /\ gaps = Tight(src)
  /\ text = Joined(src, gaps, 1)
  /\ pc = "ready"
  /\ prev = <<>>
  /\ formula = NoTree
  /\ interp = <<>>
  /\ Idle

\* one whitespace character more at a token boundary (or at either end);
\* the outcome on the text as it was first is kept in prev
InsertWs ==
  /\ pc = "done"
  /\ TotalLen(gaps, 1) - TotalLen(Tight(src), 1) < MaxInserts
  /\ \E i \in 1..Len(gaps), c \in Whitespace :
       \E j \in 0..Len(gaps[i]) :
         /\ gaps' = [gaps EXCEPT ![i] = InsertAt(@, j, c)]
         /\ text' = Joined(src, gaps', 1)
  /\ prev' = IF prev = <<>> THEN <<[lexed |-> lexed, out |-> out]>> ELSE prev
  /\ lexed' = NoLex
  /\ out' = NoCall
  /\ pc' = "ready"
  /\ UNCHANGED <<outs, src, formula, interp, val>>

NextWs == Lexing("ready", "lexed") \/ Parsing("lexed", "done") \/ InsertWs

SpecWs == InitWs /\ [][NextWs]_vars

(***************************************************************************)
(* C10.  Whitespace is insignificant except as a token separator: the      *)
(* lexer emits the tokens of the text and none for whitespace, and after   *)
(* whitespace is inserted at the start, at the end or between two tokens,  *)
(* the token sequence and the outcome of prop are what they were.          *)
(***************************************************************************)
C10_WhitespaceInsignificant ==
  pc = "done" =>
    /\ lexed = [toks |-> src, err |-> NoErr]
    /\ prev # <<>> => (lexed = prev[1].lexed /\ out = prev[1].out)

\* "p&p" with a tab inserted before `&`
C10_Witness ==
  /\ pc = "done"
  /\ prev # <<>>
  /\ text = <<"p", "\t", "&", "p">>
  /\ Len(lexed.toks) = 3
  /\ out = Returned(And(P, P))

(***************************************************************************)
(* C11.  Every IDENT token has a lexeme of the form                        *)
(* [A-Za-z_][A-Za-z0-9_]* and is the longest such run where it starts;     *)
(* a character that is not whitespace, does not begin an operator or a     *)
(* parenthesis and cannot begin such an identifier ends the stream with    *)
(* "unexpected character" carrying it.                                     *)
(***************************************************************************)
\* [A-Za-z_] and [A-Za-z0-9_] among the characters of the model
IdentStart == (Letters \ {"e_acute"}) \cup {"_"}

IdentRest == IdentStart \cup Digits

\* the characters that begin an operator or are a parenthesis
OperatorStart == {"~", "&", "|", "-", "<", "(", ")"}

WellFormed(lexeme) ==
  /\ Len(lexeme) >= 1
  /\ lexeme[1] \in IdentStart
  /\ \A j \in 2..Len(lexeme) : lexeme[j] \in IdentRest

\* the lexer stands at txt[i] with no token begun: what is before i lexes
\* without error and is not the beginning of an identifier that goes on
AtTokenStart(txt, i) ==
  /\ _lex(SubSeq(txt, 1, i - 1)).err = NoErr
  /\ ~(i > 1 /\ txt[i - 1] \in IdentRest /\ txt[i] \in IdentRest)

\* the index after the longest run of [A-Za-z0-9_] from j on
RECURSIVE RunEnd(_, _)
RunEnd(txt, j) ==
  IF j <= Len(txt) /\ txt[j] \in IdentRest THEN RunEnd(txt, j + 1) ELSE j

C11_IdentifierShape ==
  pc = "done" =>
    /\ \A n \in 1..Len(lexed.toks) :
         lexed.toks[n].type = "IDENT" => WellFormed(lexed.toks[n].value)
    /\ \A i \in 1..Len(text) :
         AtTokenStart(text, i) =>
           LET before == _lex(SubSeq(text, 1, i - 1)).toks IN
           /\ text[i] \in IdentStart =>
                /\ Len(lexed.toks) > Len(before)
                /\ lexed.toks[Len(before) + 1] =
                     Token("IDENT", SubSeq(text, i, RunEnd(text, i + 1) - 1))
           /\ text[i] \notin IdentStart \cup OperatorStart \cup Whitespace =>
                lexed = [toks |-> before, err |-> _unexp_char(text[i])]

(***************************************************************************)
(* C12.  Unmatched `(`.  When unit has consumed `(` and a complete inner   *)
(* bic and the current token is not `)`, it raises and no tree is          *)
(* returned: "unexpected end of string" when the stream is exhausted       *)
(* there, "unexpected token" with the current token's lexeme otherwise.    *)
(* When the current token is `)`, unit consumes it and returns the inner   *)
(* tree unchanged -- provided the lexer, which is run on to the token      *)
(* after that `)`, does not fail there; if it does, its ValueError is      *)
(* raised instead.  always = TRUE is the statement without the proviso.    *)
(***************************************************************************)
\* what unit, started at the `(` that is token i of the stream s, must
\* return once the inner bic has stopped at token k with the tree inner
AfterInner(s, i, k, inner, always) ==
  IF _current_token_type(s, k) = "None" THEN
    unit(s, i) = Raised(EndOfString)
  ELSE IF _current_token_type(s, k) # "RPARENS" THEN
    unit(s, i) = Raised(_unexp_token(s.toks[k].value))
  ELSE IF always \/ k < Len(s.toks) \/ s.err = NoErr THEN
    unit(s, i) = Parsed(inner, k + 1)
  ELSE unit(s, i) = Raised(s.err)

\* the same seen from prop, when the text begins with the `(`
OutAfterInner(s, k, inner, always) ==
  IF _current_token_type(s, k) = "None" THEN
    out = Failed(EndOfString)
  ELSE IF _current_token_type(s, k) # "RPARENS" THEN
    out = Failed(_unexp_token(s.toks[k].value))
  ELSE IF k < Len(s.toks) THEN TRUE
  ELSE IF always \/ s.err = NoErr THEN out = Returned(inner)
  ELSE out = Failed(s.err)

UnmatchedParen(always) ==
  pc = "done" =>
    LET s == _lex(text) IN
    \A i \in 1..Len(s.toks) :
      (s.toks[i].type = "LPARENS" /\ _advance(s, i).ok /\ bic(s, i + 1).ok) =>
        /\ AfterInner(s, i, bic(s, i + 1).pos, bic(s, i + 1).tree, always)
        /\ i = 1 => OutAfterInner(s, bic(s, 2).pos, bic(s, 2).tree, always)

\* the claim as stated: `)` is always consumed and the inner tree returned
C12_AsClaimed == UnmatchedParen(TRUE)

C12_UnmatchedParen == UnmatchedParen(FALSE)

\* "(p p": the inner bic is complete and `p` stands where `)` must
C12_Witness ==
  /\ pc = "done"
  /\ text = <<"(", "p", " ", "p">>
  /\ out = Failed(_unexp_token(<<"p">>))

====
